---- MODULE Spec2Model ----
(***************************************************************************)
(* A model of util/types/mytime.go: the mysqlTime value, its conversion to *)
(* a gotime.Time (GoTime) with the accessors derived from it, and the      *)
(* calendar arithmetic behind WEEK(): calcDaynr, calcDaysInYear,           *)
(* calcWeekday and calcWeek.                                               *)
(*                                                                         *)
(* Every function of the file is pure.  The state machine is a caller: it  *)
(* picks the arguments of one call, the call's action applies the function *)
(* and stores the arguments and the result.  A mysqlTime is first built by *)
(* newMysqlTime and the methods are then called on the built value.        *)
(*                                                                         *)
(* Integers of TLC are 32 bits wide.  Go's int is 64 bits wide, and the    *)
(* only values of the file that do not fit 32 bits are microseconds (a     *)
(* uint32 field, and the int it is converted from).  Those are kept as a   *)
(* pair <<hi, lo>> that stands for hi * 65536 + lo with lo in 0..65535.    *)
(***************************************************************************)
EXTENDS Integers, Sequences, FiniteSets

VARIABLES pc, args, t, wb, ret, loc

vars == <<pc, args, t, wb, ret, loc>>

-----------------------------------------------------------------------------
(* Go's integer arithmetic.                                                *)

\* Go's x / y for y > 0: the quotient truncated toward zero.
GoDiv(x, y) == IF x >= 0 THEN x \div y ELSE -((-x) \div y)

\* Go's x % y for y > 0: the remainder, with the sign of x.
GoRem(x, y) == x - y * GoDiv(x, y)

\* x & y on non-negative operands, bit by bit.
RECURSIVE NatAnd(_, _)
NatAnd(x, y) ==
    IF x = 0 \/ y = 0 THEN 0
    ELSE (x % 2) * (y % 2) + 2 * NatAnd(x \div 2, y \div 2)

\* x & y for a two's complement x and a mask 0 <= y < 65536: the bits of x
\* below 2^16 are those of x modulo 2^16.
BitAnd(x, y) == NatAnd(x % 65536, y)

\* The conversions uint16(x) and uint8(x) of an int: the low bits are kept.
Uint16(x) == x % 65536
Uint8(x) == x % 256

\* uint32(x) of an int x = <<hi, lo>>: the low 32 bits are kept.
Uint32(x) == <<x[1] % 65536, x[2]>>

\* An int that fits 32 bits, as a pair.
Wide(n) == <<n \div 65536, n % 65536>>

-----------------------------------------------------------------------------
(* Bounds of the model.                                                    *)

\* The largest year of a DATETIME.
MaxYear == 9999

\* The years tried are windows of YearSpan + 1 years.
YearSpan == 28

\* Day numbers tried for calcWeekday run from -MaxDaynr to MaxDaynr.
MaxDaynr == 60

YearBases == {0, 1890, 1990, MaxYear - YearSpan - 1}

Years == UNION {b .. (b + YearSpan) : b \in YearBases}

Months == 0 .. 12

Days == 0 .. 31

-----------------------------------------------------------------------------
(* The mysqlTime value and its accessors.                                  *)

WrongWidthNewMysqlTime(year, month, day, hour, minute, second, microsecond) ==
    [year |-> Uint8(year), month |-> Uint8(month), day |-> Uint8(day),
     hour |-> Uint8(hour), minute |-> Uint8(minute), second |-> Uint8(second),
     microsecond |-> Uint32(microsecond)]

newMysqlTime(year, month, day, hour, minute, second, microsecond) ==
    [year |-> Uint16(year), month |-> Uint8(month), day |-> Uint8(day),
     hour |-> Uint8(hour), minute |-> Uint8(minute), second |-> Uint8(second),
     microsecond |-> Uint32(microsecond)]

Year(x) == x.year
Month(x) == x.month
Day(x) == x.day
Hour(x) == x.hour
Minute(x) == x.minute
Second(x) == x.second
Microsecond(x) == x.microsecond

\* The zero value of mysqlTime.
ZeroTime == newMysqlTime(0, 0, 0, 0, 0, 0, Wide(0))

-----------------------------------------------------------------------------
(* The calendar helpers.                                                   *)

calcDaynr(year, month, day) ==
    IF year = 0 /\ month = 0 THEN 0
    ELSE LET delsum0 == 365 * year + 31 * (month - 1) + day
             y == IF month <= 2 THEN year - 1 ELSE year
             \* delsum -= month*4 + 23/10: the division binds first
             delsum == IF month <= 2 THEN delsum0
                       ELSE delsum0 - (month * 4 + GoDiv(23, 10))
             temp == GoDiv((GoDiv(y, 100) + 1) * 3, 4)
         IN  delsum + GoDiv(y, 4) - temp

YearZeroLeapCalcDaysInYear(year) ==
    IF BitAnd(year, 3) = 0 /\ (GoRem(year, 100) # 0 \/ GoRem(year, 400) = 0)
    THEN 366 ELSE 365

calcDaysInYear(year) ==
    IF BitAnd(year, 3) = 0
       /\ (GoRem(year, 100) # 0 \/ (GoRem(year, 400) = 0 /\ year # 0))
    THEN 366 ELSE 365

calcWeekday(daynr, sundayFirstDayOfWeek) ==
    LET d1 == daynr + 5
        d2 == IF sundayFirstDayOfWeek THEN d1 + 1 ELSE d1
    IN  GoRem(d2, 7)

-----------------------------------------------------------------------------
(* gotime: the part of Go's time package that GoTime and the derived       *)
(* accessors call.  A Time is kept as the days and the second of the day   *)
(* in UTC, the nanoseconds and the offset of its location.  The absolute   *)
(* epoch of the package is moved by a multiple of 400 years, which moves   *)
(* no date and no weekday.                                                 *)

absoluteZeroYear == -399

daysPer400Years == 146097

daysPer100Years == 36524

daysPer4Years == 1461

secondsPerDay == 86400

\* daysBefore[m + 1] is the number of days of a non-leap year before month m + 1.
daysBefore == <<0, 31, 59, 90, 120, 151, 181, 212, 243, 273, 304, 334, 365>>

isLeap(year) ==
    GoRem(year, 4) = 0 /\ (GoRem(year, 100) # 0 \/ GoRem(year, 400) = 0)

\* norm returns <<nhi, nlo>> with nhi * base + nlo = hi * base + lo, 0 <= nlo < base.
norm(hi, lo, base) ==
    LET n1 == IF lo < 0 THEN GoDiv(-lo - 1, base) + 1 ELSE 0
        hi1 == hi - n1
        lo1 == lo + n1 * base
        n2 == IF lo1 >= base THEN GoDiv(lo1, base) ELSE 0
    IN  <<hi1 + n2, lo1 - n2 * base>>

\* usec / 1000000 and usec % 1000000 of a uint32 <<hi, lo>>.  The value is
\* 64 * v + lo % 64 with v = hi * 1024 + lo / 64, and 1000000 = 64 * 15625.
MicroDiv(usec) == (usec[1] * 1024 + (usec[2] \div 64)) \div 15625
MicroRem(usec) ==
    ((usec[1] * 1024 + (usec[2] \div 64)) % 15625) * 64 + (usec[2] % 64)

\* The days from the absolute epoch to the day `day` of month `month`
\* (1..12) of `year`: the 400-year, 100-year and 4-year cycles, the years
\* left, the days before the month and the days before the day.
daysSinceEpoch(year, month, day) ==
    LET y == year - absoluteZeroYear
    IN  daysPer400Years * (y \div 400)
        + daysPer100Years * ((y % 400) \div 100)
        + daysPer4Years * ((y % 100) \div 4)
        + 365 * (y % 4)
        + daysBefore[month]
        + (IF isLeap(year) /\ month >= 3 THEN 1 ELSE 0)
        + (day - 1)

\* The Time of a normalized date and clock: ym = <<year, month - 1>>,
\* dh = <<day, hour>>, hm = <<hour, min>>, ms = <<min, sec>>.
dateOf(ym, dh, hm, ms, nsec, offset) ==
    LET utc == norm(daysSinceEpoch(ym[1], ym[2] + 1, dh[1]),
                    dh[2] * 3600 + hm[2] * 60 + ms[2] - offset,
                    secondsPerDay)
    IN  [day |-> utc[1], sec |-> utc[2], nsec |-> nsec, offset |-> offset]

normDay(ym, day, hm, ms, nsec, offset) ==
    dateOf(ym, norm(day, hm[1], 24), hm, ms, nsec, offset)

normHour(ym, day, hour, ms, nsec, offset) ==
    normDay(ym, day, norm(hour, ms[1], 60), ms, nsec, offset)

\* gotime.Date(year, month, day, hour, min, sec, usec * 1000, loc) for a
\* location with the fixed offset `offset`.  sec, nsec = norm(sec, nsec, 1e9)
\* with nsec = usec * 1000 adds usec / 1e6 to sec and leaves usec % 1e6 * 1000.
Date(year, month, day, hour, min, sec, usec, offset) ==
    normHour(norm(year, month - 1, 12), day, hour,
             norm(min, sec + MicroDiv(usec), 60),
             MicroRem(usec) * 1000, offset)

\* t.abs(): the days and the second of the day in the Time's location.
abs(tm) == norm(tm.day, tm.sec + tm.offset, secondsPerDay)

\* The month and the day of the zero-based day `yday` of `year`.
absDateMonth(year, yday) ==
    LET leap == isLeap(year)
        day == IF leap /\ yday > 31 + 29 - 1 THEN yday - 1 ELSE yday
        month0 == day \div 31
        end == daysBefore[month0 + 2]
        later == day >= end
    IN  IF leap /\ yday = 31 + 29 - 1
        THEN [year |-> year, month |-> 2, day |-> 29, yday |-> yday]
        ELSE [year |-> year,
              month |-> IF later THEN month0 + 2 ELSE month0 + 1,
              day |-> day - (IF later THEN end ELSE daysBefore[month0 + 1]) + 1,
              yday |-> yday]

\* n := d / 365; n -= n >> 2; y += n; d -= 365 * n
absDateYear(y, d, n) ==
    absDateMonth(y + (n - (n \div 4)) + absoluteZeroYear,
                 d - 365 * (n - (n \div 4)))

\* n := d / daysPer4Years; y += 4 * n; d -= daysPer4Years * n
absDateCycle(y, d) ==
    absDateYear(y + 4 * (d \div daysPer4Years), d % daysPer4Years,
                (d % daysPer4Years) \div 365)

\* n := d / daysPer100Years; n -= n >> 2; y += 100 * n; d -= daysPer100Years * n
absDateCentury(y, d, n) ==
    absDateCycle(y + 100 * (n - (n \div 4)),
                 d - daysPer100Years * (n - (n \div 4)))

\* absDate: the year, month, day and zero-based day of the year of day `d`.
absDate(d) ==
    absDateCentury(400 * (d \div daysPer400Years), d % daysPer400Years,
                   (d % daysPer400Years) \div daysPer100Years)

\* tm.Date(), tm.Clock(), tm.Nanosecond().
TimeDate(tm) == absDate(abs(tm)[1])

TimeClock(tm) ==
    LET s == abs(tm)[2]
    IN  [hour |-> s \div 3600, minute |-> (s % 3600) \div 60, second |-> s % 60]

TimeNanosecond(tm) == tm.nsec

\* tm.Weekday(): Sunday is 0; day 0 of the absolute epoch is a Monday.
TimeWeekday(tm) == (abs(tm)[1] + 1) % 7

\* tm.YearDay(): 1 .. 366.
TimeYearDay(tm) == TimeDate(tm).yday + 1

\* tm.ISOWeek(): the year and week of the Thursday of tm's week.
TimeISOWeek(tm) ==
    LET d0 == abs(tm)[1]
        d == 4 - ((d0 + 1) % 7)
        thursday == IF d = 4 THEN d0 - 3 ELSE d0 + d
        a == absDate(thursday)
    IN  <<a.year, a.yday \div 7 + 1>>

-----------------------------------------------------------------------------
(* GoTime and the accessors derived from it.                               *)

\* GoTime with the comparisons joined by && instead of ||.
AllDifferGoTime(x) ==
    LET tm == Date(Year(x), Month(x), Day(x), Hour(x), Minute(x), Second(x),
                   Microsecond(x), loc)
        date == TimeDate(tm)
        clock == TimeClock(tm)
        microsec == GoDiv(TimeNanosecond(tm), 1000)
    IN  IF /\ date.year # Year(x) /\ date.month # Month(x) /\ date.day # Day(x)
           /\ clock.hour # Hour(x) /\ clock.minute # Minute(x)
           /\ clock.second # Second(x) /\ Wide(microsec) # Microsecond(x)
        THEN [tm |-> tm, err |-> "ErrInvalidTimeFormat"]
        ELSE [tm |-> tm, err |-> "nil"]

GoTime(x) ==
    LET tm == Date(Year(x), Month(x), Day(x), Hour(x), Minute(x), Second(x),
                   Microsecond(x), loc)
        date == TimeDate(tm)
        clock == TimeClock(tm)
        microsec == GoDiv(TimeNanosecond(tm), 1000)
    IN  IF \/ date.year # Year(x) \/ date.month # Month(x) \/ date.day # Day(x)
           \/ clock.hour # Hour(x) \/ clock.minute # Minute(x)
           \/ clock.second # Second(x) \/ Wide(microsec) # Microsecond(x)
        THEN [tm |-> tm, err |-> "ErrInvalidTimeFormat"]
        ELSE [tm |-> tm, err |-> "nil"]

Weekday(x) ==
    LET r == GoTime(x) IN IF r.err # "nil" THEN 0 ELSE TimeWeekday(r.tm)

\* YearDay that returns the day of the year of the rolled-over timestamp.
ErrorIgnoringYearDay(x) == TimeYearDay(GoTime(x).tm)

YearDay(x) ==
    LET r == GoTime(x) IN IF r.err # "nil" THEN 0 ELSE TimeYearDay(r.tm)

ISOWeek(x) ==
    LET r == GoTime(x) IN IF r.err # "nil" THEN <<0, 0>> ELSE TimeISOWeek(r.tm)

-----------------------------------------------------------------------------
(* weekBehaviour and calcWeek.                                             *)

weekBehaviourMondayFirst == 1

weekBehaviourWeekYear == 2

weekBehaviourWeekFirstWeekday == 4

\* test that compares the behaviour with the flag instead of masking it.
EqualityTest(v, flag) == v = flag

test(v, flag) == BitAnd(v, flag) # 0

\* calcWeek returns the week and the value it leaves in *year.
calcWeek(x, b) ==
    LET daynr == calcDaynr(x.year, x.month, x.day)
        first_daynr0 == calcDaynr(x.year, 1, 1)
        monday_first == test(b, weekBehaviourMondayFirst)
        week_year0 == test(b, weekBehaviourWeekYear)
        first_weekday == test(b, weekBehaviourWeekFirstWeekday)
        weekday0 == calcWeekday(first_daynr0, ~monday_first)
        early == x.month = 1 /\ x.day <= 7 - weekday0
    IN  IF /\ early
           /\ ~week_year0
           /\ \/ first_weekday /\ weekday0 # 0
              \/ ~first_weekday /\ weekday0 >= 4
        THEN [week |-> 0, year |-> x.year]
        ELSE
          LET week_year == week_year0 \/ early
              year1 == IF early THEN x.year - 1 ELSE x.year
              days0 == calcDaysInYear(year1)
              first_daynr == IF early THEN first_daynr0 - days0 ELSE first_daynr0
              weekday == IF early THEN GoRem(weekday0 + 53 * 7 - days0, 7)
                         ELSE weekday0
              days == IF \/ first_weekday /\ weekday # 0
                         \/ ~first_weekday /\ weekday >= 4
                      THEN daynr - (first_daynr + 7 - weekday)
                      ELSE daynr - (first_daynr - weekday)
              weekday2 == GoRem(weekday + calcDaysInYear(year1), 7)
          IN  IF /\ week_year
                 /\ days >= 52 * 7
                 /\ \/ ~first_weekday /\ weekday2 < 4
                    \/ first_weekday /\ weekday2 = 0
              THEN [week |-> 1, year |-> year1 + 1]
              ELSE [week |-> GoDiv(days, 7) + 1, year |-> year1]

-----------------------------------------------------------------------------
(* The calls of the helpers.                                               *)

InitIdle ==
    /\ pc = "idle"
    /\ args = <<>>
    /\ t = ZeroTime
    /\ wb = 0
    /\ ret = <<>>
    /\ loc = 0

CallCalcDaysInYear ==
    /\ pc = "idle"
    /\ \E year \in (-1) .. MaxYear :
          /\ args' = <<year>>
          /\ ret' = <<calcDaysInYear(year)>>
    /\ pc' = "calcDaysInYear"
    /\ UNCHANGED <<t, wb, loc>>

CallCalcWeekday ==
    /\ pc = "idle"
    /\ \E daynr \in (-MaxDaynr) .. MaxDaynr, sundayFirst \in BOOLEAN :
          /\ args' = <<daynr, sundayFirst>>
          /\ ret' = <<calcWeekday(daynr, sundayFirst)>>
    /\ pc' = "calcWeekday"
    /\ UNCHANGED <<t, wb, loc>>

CallCalcDaynr ==
    /\ pc = "idle"
    /\ \E year \in Years, month \in Months, day \in Days :
          /\ args' = <<year, month, day>>
          /\ ret' = <<calcDaynr(year, month, day)>>
    /\ pc' = "calcDaynr"
    /\ UNCHANGED <<t, wb, loc>>

NextHelpers == CallCalcDaysInYear \/ CallCalcWeekday \/ CallCalcDaynr

SpecHelpers == InitIdle /\ [][NextHelpers]_vars

-----------------------------------------------------------------------------
(* The calls of calcWeek: a date is built, calcWeek is called on it.       *)

NewDate ==
    /\ pc = "idle"
    /\ \E year \in Years, month \in Months, day \in Days :
          /\ args' = <<year, month, day, 0, 0, 0, Wide(0)>>
          /\ t' = newMysqlTime(year, month, day, 0, 0, 0, Wide(0))
    /\ pc' = "newMysqlTime"
    /\ UNCHANGED <<wb, ret, loc>>

CallCalcWeek ==
    /\ pc = "newMysqlTime"
    /\ \E b \in 0 .. 7 :
          /\ wb' = b
          /\ ret' = calcWeek(t, b)
    /\ pc' = "calcWeek"
    /\ UNCHANGED <<args, t, loc>>

NextWeek == NewDate \/ CallCalcWeek

SpecWeek == InitIdle /\ [][NextWeek]_vars

-----------------------------------------------------------------------------
(* The calls of newMysqlTime, GoTime and the derived accessors, with       *)
(* arguments inside and outside the ranges of the fields.                  *)

YearArgs == {-1, 0, 1900, 2000, 2023, 2024, MaxYear, 65536 + 2024}

MonthArgs == {0, 2, 4, 12, 13, 256 + 2}

DayArgs == {0, 1, 29, 30, 31, 32, 256 + 1}

HourArgs == {0, 23, 24}

MinuteArgs == {0, 59, 60}

SecondArgs == {0, 59, 60}

\* 0, 999999, 1000000, 2^32 + 7 and -1.
MicrosecondArgs ==
    {Wide(0), Wide(999999), Wide(1000000), <<65536, 7>>, <<-1, 65535>>}

\* The offsets of gotime.Local tried, in seconds east of UTC.
LocalOffsets == {-18000, 28800}

InitTime ==
    /\ pc = "idle"
    /\ args = <<>>
    /\ t = ZeroTime
    /\ wb = 0
    /\ ret = <<>>
    /\ loc \in LocalOffsets

NewMysqlTime ==
    /\ pc = "idle"
    /\ \E year \in YearArgs, month \in MonthArgs, day \in DayArgs,
          hour \in HourArgs, minute \in MinuteArgs, second \in SecondArgs,
          microsecond \in MicrosecondArgs :
          /\ args' = <<year, month, day, hour, minute, second, microsecond>>
          /\ t' = newMysqlTime(year, month, day, hour, minute, second,
                               microsecond)
    /\ pc' = "newMysqlTime"
    /\ UNCHANGED <<wb, ret, loc>>

CallGoTime ==
    /\ pc = "newMysqlTime"
    /\ ret' = GoTime(t)
    /\ pc' = "GoTime"
    /\ UNCHANGED <<args, t, wb, loc>>

CallWeekday ==
    /\ pc = "newMysqlTime"
    /\ ret' = <<Weekday(t)>>
    /\ pc' = "Weekday"
    /\ UNCHANGED <<args, t, wb, loc>>

CallYearDay ==
    /\ pc = "newMysqlTime"
    /\ ret' = <<YearDay(t)>>
    /\ pc' = "YearDay"
    /\ UNCHANGED <<args, t, wb, loc>>

CallISOWeek ==
    /\ pc = "newMysqlTime"
    /\ ret' = ISOWeek(t)
    /\ pc' = "ISOWeek"
    /\ UNCHANGED <<args, t, wb, loc>>

NextTime ==
    NewMysqlTime \/ CallGoTime \/ CallWeekday \/ CallYearDay \/ CallISOWeek

SpecTime == InitTime /\ [][NextTime]_vars

\* Every call of the file.
Next == NextHelpers \/ NextWeek \/ NextTime

Spec == InitTime /\ [][Next]_vars

-----------------------------------------------------------------------------
(* The calendar the properties are stated against: the proleptic Gregorian *)
(* calendar, written without any of the operators above.                   *)

GregorianLeap(y) == y % 4 = 0 /\ (y % 100 # 0 \/ y % 400 = 0)

DaysInMonth(y, m) ==
    IF m = 2 THEN (IF GregorianLeap(y) THEN 29 ELSE 28)
    ELSE IF m \in {4, 6, 9, 11} THEN 30 ELSE 31

DaysInYear(y) == IF GregorianLeap(y) THEN 366 ELSE 365

RealDate(y, m, d) == m \in 1 .. 12 /\ d \in 1 .. DaysInMonth(y, m)

\* A microsecond <<hi, lo>> in 0 .. 999999.
RealMicrosecond(us) == us[1] \in 0 .. 15 /\ us[1] * 65536 + us[2] <= 999999

RealDateTime(x) ==
    /\ RealDate(x.year, x.month, x.day)
    /\ x.hour <= 23 /\ x.minute <= 59 /\ x.second <= 59
    /\ RealMicrosecond(x.microsecond)

\* The day after the real date y-m-d.
NextDate(y, m, d) ==
    IF d < DaysInMonth(y, m) THEN <<y, m, d + 1>>
    ELSE IF m < 12 THEN <<y, m + 1, 1>> ELSE <<y + 1, 1, 1>>

RECURSIVE DaysBeforeMonth(_, _)
DaysBeforeMonth(y, m) ==
    IF m <= 1 THEN 0 ELSE DaysBeforeMonth(y, m - 1) + DaysInMonth(y, m - 1)

\* The day of the year, 1 .. 366.
CivilYearDay(y, m, d) == DaysBeforeMonth(y, m) + d

\* The days from 0000-01-01 (day 1) to y-m-d, for y >= 0.
CivilOrdinal(y, m, d) ==
    365 * y + ((y + 3) \div 4) - ((y + 99) \div 100) + ((y + 399) \div 400)
    + CivilYearDay(y, m, d)

\* The weekday, Sunday = 0: 0001-01-01 is a Monday.
CivilWeekday(y, m, d) == (CivilOrdinal(y, m, d) + 5) % 7

\* The ISO 8601 <<year, week>>: those of the Thursday of the date's week.
CivilISOWeek(y, m, d) ==
    LET wd == CivilWeekday(y, m, d)
        thu == CivilYearDay(y, m, d) - (IF wd = 0 THEN 7 ELSE wd) + 4
    IN  IF thu < 1 THEN <<y - 1, (thu + DaysInYear(y - 1) - 1) \div 7 + 1>>
        ELSE IF thu > DaysInYear(y) THEN <<y + 1, 1>>
        ELSE <<y, (thu - 1) \div 7 + 1>>

\* t is the date y-m-d at midnight.
IsDate(y, m, d) ==
    t = [year |-> y, month |-> m, day |-> d, hour |-> 0, minute |-> 0,
         second |-> 0, microsecond |-> <<0, 0>>]

\* The weekday index of January 1st of t's year under the week start of wb.
Weekday0 ==
    calcWeekday(calcDaynr(t.year, 1, 1), ~test(wb, weekBehaviourMondayFirst))

\* The condition of calcWeek's early return of week 0.
EarlyYear ==
    /\ t.month = 1
    /\ t.day <= 7 - Weekday0
    /\ \/ test(wb, weekBehaviourWeekFirstWeekday) /\ Weekday0 # 0
       \/ ~test(wb, weekBehaviourWeekFirstWeekday) /\ Weekday0 >= 4

-----------------------------------------------------------------------------
(* The properties.                                                         *)

\* C1, as stated: calcWeek for 2000-01-01 under the behaviours 0..7 returns
\* the weeks 0,0,52,52,1,0,1,52, with the year 1999 for 2, 3 and 7 and the
\* year 2000 for 0, 1, 4, 5 and 6.
C1_Week2000AsStated ==
    (pc = "calcWeek" /\ IsDate(2000, 1, 1)) =>
        /\ ret.week = <<0, 0, 52, 52, 1, 0, 1, 52>>[wb + 1]
        /\ ret.year = IF wb \in {2, 3, 7} THEN 1999 ELSE 2000

\* C1, amended: calcWeek for 2000-01-01 (a Saturday) under the behaviours
\* 0..7 returns the weeks 0,0,52,52,0,0,52,52, with the year 1999 for the
\* behaviours that have WeekYear set (2, 3, 6, 7) and 2000 for the others.
C1_Week2000 ==
    (pc = "calcWeek" /\ IsDate(2000, 1, 1)) =>
        /\ ret.week = <<0, 0, 52, 52, 0, 0, 52, 52>>[wb + 1]
        /\ ret.year = IF wb \in {2, 3, 6, 7} THEN 1999 ELSE 2000

\* A call of calcWeek for 2000-01-01 with WeekYear and FirstWeekday set has
\* returned week 52 of 1999.
C1_Witness ==
    /\ pc = "calcWeek" /\ IsDate(2000, 1, 1) /\ wb = 6
    /\ ret = [week |-> 52, year |-> 1999]

\* C2: for every date with year 0..9999, month 0..12 and day 0..31 and
\* every behaviour with WeekYear set, the week calcWeek returns is in 1..53.
C2_WeekYearRange ==
    (pc = "calcWeek" /\ wb \in {2, 3, 6, 7} /\ t.year \in 0 .. MaxYear) =>
        ret.week \in 1 .. 53

\* C3: for every date with year 0..9999, month 0..12 and day 0..31 and
\* every behaviour with WeekYear unset, the week calcWeek returns is in
\* 0..53, and it is 0 only for a January date that meets the early-year
\* condition, for which the owning year is the calendar year.
C3_WeekZeroOnlyEarlyYear ==
    (pc = "calcWeek" /\ wb \in {0, 1, 4, 5} /\ t.year \in 0 .. MaxYear) =>
        /\ ret.week \in 0 .. 53
        /\ ret.week = 0 => (EarlyYear /\ ret.year = t.year)

\* C4: GoTime succeeds exactly for the values whose fields are a real
\* calendar date and time, and the fields derived from the timestamp are
\* then the input's; for every other value it returns ErrInvalidTimeFormat
\* with the rolled-over timestamp (2023-02-29 becomes 2023-03-01), whose
\* fields differ from the input's.
C4_GoTimeValidates ==
    pc = "GoTime" =>
        LET date == TimeDate(ret.tm)
            clock == TimeClock(ret.tm)
            fields == <<date.year, date.month, date.day, clock.hour,
                        clock.minute, clock.second,
                        Wide(TimeNanosecond(ret.tm) \div 1000)>>
            input == <<t.year, t.month, t.day, t.hour, t.minute, t.second,
                       t.microsecond>>
        IN  /\ ret.err \in {"nil", "ErrInvalidTimeFormat"}
            /\ ret.err = "nil" <=> RealDateTime(t)
            /\ ret.err = "nil" => fields = input
            /\ ret.err # "nil" => fields # input
            /\ IsDate(2023, 2, 29) =>
                  <<date.year, date.month, date.day>> = <<2023, 3, 1>>

\* GoTime has refused 2023-02-29 and returned the timestamp of 2023-03-01.
C4_Witness ==
    /\ pc = "GoTime" /\ IsDate(2023, 2, 29)
    /\ ret.err = "ErrInvalidTimeFormat"
    /\ TimeDate(ret.tm).month = 3 /\ TimeDate(ret.tm).day = 1

\* C5: calcWeekday returns, for every day number, negative ones included,
\* an index in 0..6 equal to the floored (daynr + 5 + (sundayFirst ? 1 : 0))
\* mod 7, and it has period 7.
C5_WeekdayFlooredPeriodic ==
    pc = "calcWeekday" =>
        /\ ret[1] \in 0 .. 6
        /\ ret[1] = (args[1] + 5 + (IF args[2] THEN 1 ELSE 0)) % 7
        /\ calcWeekday(args[1] + 7, args[2]) = ret[1]

\* C6: calcDaysInYear(y) is 366 if and only if y is a multiple of 4 and
\* either no multiple of 100 or a multiple of 400 other than 0, and 365
\* otherwise, for y in -1..9999; it is 365 for 0 and 1900, 366 for 2000
\* and 2024.
C6_DaysInYear ==
    pc = "calcDaysInYear" =>
        LET y == args[1]
        IN  /\ ret[1] \in {365, 366}
            /\ ret[1] = 366 <=>
                  (y % 4 = 0 /\ (y % 100 # 0 \/ (y % 400 = 0 /\ y # 0)))
            /\ y \in {0, 1900} => ret[1] = 365
            /\ y \in {2000, 2024} => ret[1] = 366

\* calcDaysInYear has been called for the year 0 and has returned 365.
C6_Witness == pc = "calcDaysInYear" /\ args[1] = 0 /\ ret[1] = 365

\* C7: Weekday, YearDay and ISOWeek return 0, 0 and (0, 0) for every value
\* GoTime refuses, and the weekday, the day of the year (1..366) and the ISO
\* year and week of the date for every value it accepts.
C7_DerivedAccessors ==
    /\ pc = "Weekday" =>
          ret[1] = IF RealDateTime(t)
                   THEN CivilWeekday(t.year, t.month, t.day) ELSE 0
    /\ pc = "YearDay" =>
          /\ ret[1] = IF RealDateTime(t)
                      THEN CivilYearDay(t.year, t.month, t.day) ELSE 0
          /\ RealDateTime(t) => ret[1] \in 1 .. 366
    /\ pc = "ISOWeek" =>
          /\ ret = IF RealDateTime(t)
                   THEN CivilISOWeek(t.year, t.month, t.day) ELSE <<0, 0>>
          /\ RealDateTime(t) => ret[2] \in 1 .. 53

\* YearDay has been called for 2023-02-29 and has returned 0.
C7_Witness == pc = "YearDay" /\ IsDate(2023, 2, 29) /\ ret[1] = 0

\* C8: after newMysqlTime the accessors return the arguments modulo the
\* widths of the fields (2^16 for the year, 2^8 for month, day, hour,
\* minute and second, 2^32 for the microsecond), as non-negative integers;
\* an argument inside the width of its field is returned unchanged.
C8_ConstructorNarrows ==
    pc = "newMysqlTime" =>
        LET small == <<Month(t), Day(t), Hour(t), Minute(t), Second(t)>>
            us == Microsecond(t)
        IN  /\ Year(t) \in 0 .. 65535
            /\ \E k \in -1 .. 1 : args[1] = Year(t) + 65536 * k
            /\ args[1] \in 0 .. MaxYear => Year(t) = args[1]
            /\ \A i \in 1 .. 5 :
                  /\ small[i] \in 0 .. 255
                  /\ \E k \in -1 .. 1 : args[i + 1] = small[i] + 256 * k
                  /\ args[i + 1] \in 0 .. 255 => small[i] = args[i + 1]
            /\ us[1] \in 0 .. 65535 /\ us[2] = args[7][2]
            /\ \E k \in -1 .. 1 : args[7][1] = us[1] + 65536 * k
            /\ RealMicrosecond(args[7]) => us = args[7]

\* newMysqlTime has been called with the year 65536 + 2024 and the month
\* 256 + 2 and has stored the year 2024 and the month 2.
C8_Witness ==
    /\ pc = "newMysqlTime"
    /\ args[1] = 65536 + 2024 /\ Year(t) = 2024
    /\ args[2] = 256 + 2 /\ Month(t) = 2

\* C9: for every real calendar date with year 1..9999, calcWeek with
\* MondayFirst and WeekYear set and FirstWeekday unset returns the ISO 8601
\* week and week-year of the date, the pair ISOWeek returns.
C9_Mode3IsISOWeek ==
    (/\ pc = "calcWeek" /\ wb = 3
     /\ t.year \in 1 .. MaxYear /\ RealDate(t.year, t.month, t.day)) =>
        /\ <<ret.year, ret.week>> = ISOWeek(t)
        /\ <<ret.year, ret.week>> = CivilISOWeek(t.year, t.month, t.day)

\* C10: for every real calendar date d with year 1..9999 and the next
\* calendar day d', calcDaynr(d') = calcDaynr(d) + 1.
C10_DaynrSuccessor ==
    (/\ pc = "calcDaynr"
     /\ args[1] \in 1 .. MaxYear /\ RealDate(args[1], args[2], args[3])) =>
        LET n == NextDate(args[1], args[2], args[3])
        IN  calcDaynr(n[1], n[2], n[3]) = ret[1] + 1

====
